---- MODULE Spec2Model ----
(***************************************************************************)
(* A model of the Srcubmail popup: the email utilities (emailUtils.ts),    *)
(* the clipboard service (chromeService.ts) and the scrape button          *)
(* controller (ScrapeButton.ts).                                           *)
(*                                                                         *)
(* A JavaScript string is a sequence of one-character strings.  A          *)
(* JavaScript value is a record [k, s, a]: its kind, its characters when   *)
(* it is a string, its elements when it is an array.                       *)
(***************************************************************************)
EXTENDS Integers, Sequences, FiniteSets, TLC

\* ------------------------------------------------------------------------
\* Bounds of the model
\* ------------------------------------------------------------------------
MaxPieces == 3

MaxEmails == 3

MaxInvocations == 2

MaxTimers == 3

\* ------------------------------------------------------------------------
\* Characters and strings
\* ------------------------------------------------------------------------
Lower == <<"a","b","c","d","e","f","g","h","i","j","k","l","m",
           "n","o","p","q","r","s","t","u","v","w","x","y","z">>

Upper == <<"A","B","C","D","E","F","G","H","I","J","K","L","M",
           "N","O","P","Q","R","S","T","U","V","W","X","Y","Z">>

Digits == {"0","1","2","3","4","5","6","7","8","9"}

LowerSet == {Lower[i] : i \in 1..26}

UpperSet == {Upper[i] : i \in 1..26}

\* the white space String.prototype.trim removes, as far as the inputs use it
WhiteSpace == {" ", "\t", "\n"}

\* [a-zA-Z]
IsLetter(c) == c \in LowerSet \/ c \in UpperSet

\* [a-zA-Z0-9._%+-]
IsLocalChar(c) == IsLetter(c) \/ c \in Digits \/ c \in {".", "_", "%", "+", "-"}

\* [a-zA-Z0-9.-]
IsDomainChar(c) == IsLetter(c) \/ c \in Digits \/ c \in {".", "-"}

Min(S) == CHOOSE x \in S : \A y \in S : x <= y

Max(S) == CHOOSE x \in S : \A y \in S : x >= y

\* String.prototype.toLowerCase, one character
ToLowerChar(c) ==
  IF c \in UpperSet THEN Lower[CHOOSE i \in 1..26 : Upper[i] = c] ELSE c

ToLowerCase(s) == [i \in 1..Len(s) |-> ToLowerChar(s[i])]

\* String.prototype.trim
Trim(s) ==
  LET keep == {i \in 1..Len(s) : s[i] \notin WhiteSpace}
  IN IF keep = {} THEN <<>> ELSE SubSeq(s, Min(keep), Max(keep))

\* ------------------------------------------------------------------------
\* JavaScript values
\* ------------------------------------------------------------------------
Str(s) == [k |-> "string", s |-> s, a |-> <<>>]

Arr(xs) == [k |-> "array", s |-> <<>>, a |-> xs]

Null == [k |-> "null", s |-> <<>>, a |-> <<>>]

Undefined == [k |-> "undefined", s |-> <<>>, a |-> <<>>]

\* a non-zero number, such as 42
Num == [k |-> "number", s |-> <<>>, a |-> <<>>]

\* !v
Falsy(v) == v.k \in {"null", "undefined"} \/ (v.k = "string" /\ v.s = <<>>)

\* ------------------------------------------------------------------------
\* The two regular expressions
\* ------------------------------------------------------------------------
\* The ways [a-zA-Z0-9._%+-]+@[a-zA-Z0-9.-]+\.[a-zA-Z]{2,} matches s from
\* position i: <<k, d, t>> are the lengths taken by the three quantifiers.
\* The "i" flag adds nothing: both classes hold both cases of each letter.
EmailPatternSplits(s, i) ==
  LET n == Len(s)
      \* [a-zA-Z0-9._%+-]+ then @
      Ks == {k \in 1..(n - i) :
               /\ \A j \in i..(i + k - 1) : IsLocalChar(s[j])
               /\ s[i + k] = "@"}
      \* [a-zA-Z0-9.-]+ then \.
      Ds(k) == {d \in 1..(n - i - k - 1) :
                  /\ \A j \in (i + k + 1)..(i + k + d) : IsDomainChar(s[j])
                  /\ s[i + k + d + 1] = "."}
      \* [a-zA-Z]{2,}
      Ts(k, d) == {t \in 2..(n - i - k - d - 1) :
                     \A j \in (i + k + d + 2)..(i + k + d + 1 + t) : IsLetter(s[j])}
  IN UNION {UNION {{<<k, d, t>> : t \in Ts(k, d)} : d \in Ds(k)} : k \in Ks}

SplitEnd(i, c) == i + c[1] + c[2] + c[3] + 1

\* greedy quantifiers, backtracking: the first split tried that succeeds is
\* the one with the longest k, then the longest d, then the longest t
Greediest(S) ==
  CHOOSE c \in S : \A o \in S :
    \/ c[1] > o[1]
    \/ c[1] = o[1] /\ c[2] > o[2]
    \/ c[1] = o[1] /\ c[2] = o[2] /\ c[3] >= o[3]

\* the end of EMAIL_REGEX's match that starts at i, 0 when there is none
EmailRegexMatchEnd(s, i) ==
  LET S == EmailPatternSplits(s, i)
  IN IF S = {} THEN 0 ELSE SplitEnd(i, Greediest(S))

RECURSIVE ScanFrom(_, _)
ScanFrom(s, i) ==
  IF i > Len(s) THEN <<>>
  ELSE LET e == EmailRegexMatchEnd(s, i)
       IN IF e = 0 THEN ScanFrom(s, i + 1)
          ELSE <<SubSeq(s, i, e)>> \o ScanFrom(s, e + 1)

\* s.match(EMAIL_REGEX): every match, left to right (<<>> stands for null)
MatchEmailRegex(s) == ScanFrom(s, 1)

\* a faulty variant: the pattern without its closing $
StrictEmailRegexTestNoEndAnchor(s) == EmailPatternSplits(s, 1) # {}

\* a faulty variant: a local part class without the underscore
StrictEmailRegexTestNarrowLocal(s) ==
  \E c \in EmailPatternSplits(s, 1) :
    /\ SplitEnd(1, c) = Len(s)
    /\ \A j \in 1..c[1] : s[j] # "_"

\* STRICT_EMAIL_REGEX.test(s): the pattern anchored at both ends
StrictEmailRegexTest(s) ==
  \E c \in EmailPatternSplits(s, 1) : SplitEnd(1, c) = Len(s)

\* ------------------------------------------------------------------------
\* emailUtils.ts
\* ------------------------------------------------------------------------
\* ScrapingOptions. k = "null" is a caller passing null for the options; a
\* filterPattern is a regular expression made of a literal, with or without
\* the g flag, its lastIndex 0 when it is handed over.
NoFilter == [present |-> FALSE, lit |-> <<>>, global |-> FALSE]

DefaultOptions == [k |-> "object", includeDuplicates |-> FALSE, filter |-> NoFilter]

\* where literal lit occurs in s at or after position from (1-based), 0 if nowhere
IndexOfFrom(s, lit, from) ==
  LET hits == {i \in from..(Len(s) - Len(lit) + 1) : SubSeq(s, i, i + Len(lit) - 1) = lit}
  IN IF hits = {} THEN 0 ELSE Min(hits)

\* RegExp.prototype.test of a literal pattern: <<result, lastIndex after>>.
\* Without the g flag the search starts at 0 and lastIndex stays as it is.
RegExpTest(pat, s, lastIndex) ==
  LET start == IF pat.global THEN lastIndex ELSE 0
      at == IF start > Len(s) THEN 0 ELSE IndexOfFrom(s, pat.lit, start + 1)
  IN IF at = 0
       THEN <<FALSE, IF pat.global THEN 0 ELSE lastIndex>>
       ELSE <<TRUE, IF pat.global THEN at - 1 + Len(pat.lit) ELSE lastIndex>>

\* emails.filter((email) => options.filterPattern.test(email))
RECURSIVE FilterByPattern(_, _, _)
FilterByPattern(emails, pat, lastIndex) ==
  IF emails = <<>> THEN <<>>
  ELSE LET r == RegExpTest(pat, Head(emails), lastIndex)
       IN (IF r[1] THEN <<Head(emails)>> ELSE <<>>)
            \o FilterByPattern(Tail(emails), pat, r[2])

\* [...new Set(xs)]: insertion order, exact equality
RECURSIVE SetSpreadInto(_, _)
SetSpreadInto(xs, acc) ==
  IF xs = <<>> THEN acc
  ELSE SetSpreadInto(Tail(xs),
         IF \E i \in 1..Len(acc) : acc[i] = Head(xs) THEN acc
         ELSE Append(acc, Head(xs)))

\* a faulty variant: no deduplication
SetSpreadKeepsAll(xs) == xs

\* a faulty variant: the last occurrence of each entry is the one kept
SetSpreadKeepsLast(xs) ==
  LET last == {i \in 1..Len(xs) : \A j \in (i + 1)..Len(xs) : xs[j] # xs[i]}
  IN [n \in 1..Cardinality(last) |->
        xs[CHOOSE i \in last : Cardinality({j \in last : j < i}) = n - 1]]

SetSpread(xs) == SetSpreadInto(xs, <<>>)

\* a faulty variant: the lower-casing forgotten
CleanEmailTrimOnly(email) == Trim(email)

\* matches.map((email) => email.trim().toLowerCase())
CleanEmail(email) == ToLowerCase(Trim(email))

\* a faulty variant: includeDuplicates is ignored
ExtractTryBlockAlwaysUnique(htmlContent, options) ==
  IF Falsy(htmlContent) \/ htmlContent.k # "string"
    THEN [threw |-> TRUE, arr |-> <<>>]
  ELSE
    LET matches == MatchEmailRegex(htmlContent.s)
        cleaned == [i \in 1..Len(matches) |-> CleanEmail(matches[i])]
        valid == SelectSeq(cleaned, StrictEmailRegexTest)
    IN IF matches = <<>> THEN [threw |-> FALSE, arr |-> <<>>]
       ELSE IF options.k # "object" THEN [threw |-> TRUE, arr |-> <<>>]
       ELSE
         LET unique == SetSpread(valid)
             kept == IF options.filter.present
                       THEN FilterByPattern(unique, options.filter, 0)
                       ELSE unique
         IN [threw |-> FALSE, arr |-> kept]

\* the try block of extractEmailsFromHTML: [threw, arr]
ExtractTryBlock(htmlContent, options) ==
  IF Falsy(htmlContent) \/ htmlContent.k # "string"
    THEN [threw |-> TRUE, arr |-> <<>>]
  ELSE
    LET matches == MatchEmailRegex(htmlContent.s)
        cleaned == [i \in 1..Len(matches) |-> CleanEmail(matches[i])]
        valid == SelectSeq(cleaned, StrictEmailRegexTest)
    IN IF matches = <<>> THEN [threw |-> FALSE, arr |-> <<>>]
       \* options.includeDuplicates on null
       ELSE IF options.k # "object" THEN [threw |-> TRUE, arr |-> <<>>]
       ELSE
         LET unique == IF ~options.includeDuplicates THEN SetSpread(valid) ELSE valid
             kept == IF options.filter.present
                       THEN FilterByPattern(unique, options.filter, 0)
                       ELSE unique
         IN [threw |-> FALSE, arr |-> kept]

\* a faulty variant: no catch around the body
extractEmailsFromHTMLNoCatch(htmlContent, options) ==
  LET r == ExtractTryBlock(htmlContent, options)
  IN [raised |-> r.threw, emails |-> r.arr]

\* extractEmailsFromHTML: what the promise settles to. raised = the promise
\* rejects; emails = the emails of the result it resolves to.
extractEmailsFromHTML(htmlContent, options) ==
  LET r == ExtractTryBlock(htmlContent, options)
  IN IF r.threw THEN [raised |-> FALSE, emails |-> <<>>]
     ELSE [raised |-> FALSE, emails |-> r.arr]

\* isValidEmail
isValidEmail(email) ==
  IF Falsy(email) \/ email.k # "string" THEN FALSE
  ELSE StrictEmailRegexTest(Trim(email.s))

\* a faulty variant: the normalized string is what is kept
RECURSIVE DedupeFilterKeepsNormalized(_, _, _)
DedupeFilterKeepsNormalized(xs, seen, acc) ==
  IF xs = <<>> THEN [raised |-> FALSE, arr |-> acc]
  ELSE LET email == Head(xs) IN
    IF email.k # "string" THEN [raised |-> TRUE, arr |-> <<>>]
    ELSE LET normalized == Trim(ToLowerCase(email.s)) IN
      IF normalized \in seen THEN DedupeFilterKeepsNormalized(Tail(xs), seen, acc)
      ELSE DedupeFilterKeepsNormalized(Tail(xs), seen \cup {normalized},
                                       Append(acc, Str(normalized)))

\* a faulty variant: a duplicate is dropped and forgotten, so that the
\* next occurrence is kept again
RECURSIVE DedupeFilterForgets(_, _, _)
DedupeFilterForgets(xs, seen, acc) ==
  IF xs = <<>> THEN [raised |-> FALSE, arr |-> acc]
  ELSE LET email == Head(xs) IN
    IF email.k # "string" THEN [raised |-> TRUE, arr |-> <<>>]
    ELSE LET normalized == Trim(ToLowerCase(email.s)) IN
      IF normalized \in seen
        THEN DedupeFilterForgets(Tail(xs), seen \ {normalized}, acc)
      ELSE DedupeFilterForgets(Tail(xs), seen \cup {normalized}, Append(acc, email))

\* the callback of removeDuplicateEmails over the rest of the array:
\* email.toLowerCase() on an element that is no string throws a TypeError
RECURSIVE DedupeFilter(_, _, _)
DedupeFilter(xs, seen, acc) ==
  IF xs = <<>> THEN [raised |-> FALSE, arr |-> acc]
  ELSE LET email == Head(xs) IN
    IF email.k # "string" THEN [raised |-> TRUE, arr |-> <<>>]
    ELSE LET normalized == Trim(ToLowerCase(email.s)) IN
      IF normalized \in seen THEN DedupeFilter(Tail(xs), seen, acc)
      ELSE DedupeFilter(Tail(xs), seen \cup {normalized}, Append(acc, email))

\* removeDuplicateEmails: raised = the call throws to its caller
removeDuplicateEmails(emails) ==
  IF emails.k # "array" THEN [raised |-> FALSE, arr |-> <<>>]
  ELSE DedupeFilter(emails.a, {}, <<>>)

\* ------------------------------------------------------------------------
\* State
\* ------------------------------------------------------------------------
VARIABLES
  \* a call of one of the email utilities
  arg,            \* the value passed
  opts,           \* the ScrapingOptions passed to extractEmailsFromHTML
  fn,             \* the utility called, "none" before the call
  ret,            \* what the call returned
  prev,           \* the result of the call before the last one
  \* copyToClipboard
  clipText,       \* the value passed as text
  hasClipboardApi,    \* navigator.clipboard
  isSecureContext,    \* window.isSecureContext
  clipPc,         \* "idle", "writeText" (awaiting the write), "returned"
  clipResult,     \* the boolean the promise resolved to
  primitive,      \* navigator.clipboard.writeText: "untried", "ok", "failed"
  fallback,       \* copyToClipboardFallback: "untried", "ok", "failed"
  clipboard,      \* the content of the system clipboard
  clipEmails,     \* the value passed as emails
  clipOpts,       \* the ClipboardOptions passed
  formatted,      \* the string formatEmailsForClipboard returned
  copyPc,         \* copyEmailsToClipboard: "idle", "awaiting", "returned";
                  \* "formatted" after a call of formatEmailsForClipboard alone
  copyRet,        \* what copyEmailsToClipboard resolved to
  \* ScrapeButton
  isScraping,     \* ScrapeButton.isScraping
  btnDisabled,    \* buttonElement.disabled
  btnText,        \* buttonElement.textContent
  btnClasses,     \* buttonElement.classList
  inv,            \* where each invocation of handleScrapeClick is suspended
  successTimers,  \* pending 2000 ms callbacks of showSuccessState
  errorTimers,    \* pending 3000 ms callbacks of handleScrapingError
  errorEvent,     \* detail.message of the last scrapingError event
  hasPermissions, \* performEmailScraping's local of each invocation:
                  \* "unset", "true", "false"
  granted,        \* likewise
  chromeMessage,  \* the last message handed to handleChromeMessage
  listEmails,     \* EmailList.emails
  listItems,      \* the emails rendered in the list element
  clipboardDisplay, \* style.display of the clipboard button
  msgText,        \* textContent of the message element
  msgDisplay,     \* style.display of the message element
  msgClass,       \* className of the message element
  hideTimers      \* pending callbacks that hide the message element, oldest
                  \* first: their delay, and whether the message they were
                  \* set for is still the one in the element

emailVars == <<arg, opts, fn, ret, prev>>

clipVars == <<clipText, hasClipboardApi, isSecureContext, clipPc, clipResult,
              primitive, fallback, clipboard,
              clipEmails, clipOpts, formatted, copyPc, copyRet>>

\* an options argument left out, or {}
NoClipboardOptions ==
  [hasSeparator |-> FALSE, separator |-> <<>>,
   hasIncludeHeaders |-> FALSE, includeHeaders |-> FALSE]

NoCopyRet == [success |-> FALSE, message |-> <<>>]

\* nothing formatted, copyEmailsToClipboard not called
ExportIdle ==
  /\ clipOpts = NoClipboardOptions
  /\ formatted = <<>>
  /\ copyPc = "idle"
  /\ copyRet = NoCopyRet

locals == <<hasPermissions, granted>>

buttonVars == <<isScraping, btnDisabled, btnText, btnClasses, inv,
                successTimers, errorTimers, errorEvent, locals>>

popupVars == <<chromeMessage, listEmails, listItems, clipboardDisplay,
               msgText, msgDisplay, msgClass, hideTimers>>

uiVars == <<buttonVars, popupVars>>

vars == <<emailVars, clipVars, uiVars>>

NoRet == [raised |-> FALSE, bool |-> FALSE, arr |-> <<>>]

\* no utility called
EmailIdle ==
  /\ arg = Undefined
  /\ opts = DefaultOptions
  /\ fn = "none"
  /\ ret = NoRet
  /\ prev = NoRet

\* no copy requested
ClipIdle ==
  /\ clipText = Undefined
  /\ hasClipboardApi = TRUE
  /\ isSecureContext = TRUE
  /\ clipPc = "idle"
  /\ clipResult = FALSE
  /\ primitive = "untried"
  /\ fallback = "untried"
  /\ clipboard = <<>>
  /\ clipEmails = Undefined
  /\ ExportIdle

\* no message received: the listener's argument when there is none
NoMessage == [present |-> FALSE, emails |-> Undefined]

\* the popup as constructed: ScrapeButton's field initialisers and the
\* button as the page declares it
UiInit ==
  /\ isScraping = FALSE
  /\ btnDisabled = FALSE
  /\ btnText = "Scrape"
  /\ btnClasses = {}
  /\ inv = [i \in 1..MaxInvocations |-> "idle"]
  /\ successTimers = 0
  /\ errorTimers = 0
  /\ errorEvent = ""
  /\ hasPermissions = [i \in 1..MaxInvocations |-> "unset"]
  /\ granted = [i \in 1..MaxInvocations |-> "unset"]
  /\ chromeMessage = NoMessage
  /\ listEmails = <<>>
  /\ listItems = <<>>
  /\ clipboardDisplay = "none"
  /\ msgText = <<>>
  /\ msgDisplay = "none"
  /\ msgClass = ""
  /\ hideTimers = <<>>

\* ------------------------------------------------------------------------
\* The email utilities, called on bounded inputs
\* ------------------------------------------------------------------------
\* page fragments; a page content is up to MaxPieces of them in a row
Pieces ==
  { <<"a","@","b",".","c","o">>,
    <<",","A","@","b",".","C","O">>,
    <<" ","c","@","d",".","u","k">>,
    <<" ">>,
    <<".","u","k">>,
    <<"@">>,
    <<"x">>,
    <<"1">>,
    <<"_">> }

RECURSIVE Concats(_)
Concats(n) ==
  IF n = 0 THEN {<<>>}
  ELSE LET shorter == Concats(n - 1)
       IN shorter \cup {x \o y : x \in shorter, y \in Pieces}

\* the content of section 8 of the specification's extract example
ExampleContent ==
  <<"C","o","n","t","a","c","t",":"," ",
    "J","a","n","e","@","E","x","a","m","p","l","e",".","c","o","m",","," ",
    "j","a","n","e","@","e","x","a","m","p","l","e",".","c","o","m",","," ",
    "n","o","t","-","a","n","-","e","m","a","i","l",","," ",
    "b","o","b","@","s","u","b",".","e","x","a","m","p","l","e",".","c","o",".","u","k">>

\* the elements of the arrays passed to removeDuplicateEmails
EmailAtoms ==
  { Str(<<"A","@","x",".","c","o","m">>),
    Str(<<"a","@","x",".","c","o","m">>),
    Str(<<"B","@","y",".","c","o","m">>),
    Str(<<" ","a","@","X",".","c","o","m","\t">>),
    Null,
    Num }

ArrayInputs == UNION {[1..n -> EmailAtoms] : n \in 0..MaxEmails}

EmailInputs ==
  {Str(s) : s \in Concats(MaxPieces)} \cup {Str(ExampleContent)}
    \cup {Null, Undefined, Num}
    \cup {Arr(a) : a \in ArrayInputs}

FilterValues ==
  { NoFilter,
    [present |-> TRUE, lit |-> <<"c","o">>, global |-> FALSE],
    [present |-> TRUE, lit |-> <<"@">>, global |-> TRUE] }

OptionValues ==
  {[k |-> "object", includeDuplicates |-> d, filter |-> f] :
      d \in BOOLEAN, f \in FilterValues}
    \cup {[k |-> "null", includeDuplicates |-> FALSE, filter |-> NoFilter]}

EmailInit ==
  /\ arg \in EmailInputs
  /\ opts = DefaultOptions
  /\ fn = "none"
  /\ ret = NoRet
  /\ prev = NoRet
  /\ ClipIdle
  /\ UiInit

\* await extractEmailsFromHTML(arg, o)
CallExtract ==
  /\ fn = "none"
  /\ \E o \in OptionValues :
       LET r == extractEmailsFromHTML(arg, o)
       IN /\ opts' = o
          /\ ret' = [raised |-> r.raised, bool |-> FALSE,
                     arr |-> [i \in 1..Len(r.emails) |-> Str(r.emails[i])]]
  /\ fn' = "extractEmailsFromHTML"
  /\ UNCHANGED <<arg, prev, clipVars, uiVars>>

\* isValidEmail(arg)
CallIsValid ==
  /\ fn = "none"
  /\ ret' = [raised |-> FALSE, bool |-> isValidEmail(arg), arr |-> <<>>]
  /\ fn' = "isValidEmail"
  /\ UNCHANGED <<arg, opts, prev, clipVars, uiVars>>

\* removeDuplicateEmails(arg)
CallDedupe ==
  /\ fn = "none"
  /\ LET r == removeDuplicateEmails(arg)
     IN ret' = [raised |-> r.raised, bool |-> FALSE, arr |-> r.arr]
  /\ fn' = "removeDuplicateEmails"
  /\ UNCHANGED <<arg, opts, prev, clipVars, uiVars>>

\* removeDuplicateEmails(the array the first call returned)
CallDedupeAgain ==
  /\ fn = "removeDuplicateEmails"
  /\ ~ret.raised
  /\ LET r == removeDuplicateEmails(Arr(ret.arr))
     IN ret' = [raised |-> r.raised, bool |-> FALSE, arr |-> r.arr]
  /\ prev' = ret
  /\ fn' = "removeDuplicateEmails twice"
  /\ UNCHANGED <<arg, opts, clipVars, uiVars>>

EmailNext == CallExtract \/ CallIsValid \/ CallDedupe \/ CallDedupeAgain

SpecEmail == EmailInit /\ [][EmailNext]_vars

\* ------------------------------------------------------------------------
\* chromeService.ts: copyToClipboard
\* ------------------------------------------------------------------------
\* DEFAULT_CLIPBOARD_OPTIONS
DEFAULT_CLIPBOARD_OPTIONS == [separator |-> <<",">>, includeHeaders |-> FALSE]

\* { ...DEFAULT_CLIPBOARD_OPTIONS, ...options }
ClipboardConfig(options) ==
  [separator |-> IF options.hasSeparator THEN options.separator
                 ELSE DEFAULT_CLIPBOARD_OPTIONS.separator,
   includeHeaders |-> IF options.hasIncludeHeaders THEN options.includeHeaders
                      ELSE DEFAULT_CLIPBOARD_OPTIONS.includeHeaders]

DigitChars == <<"0","1","2","3","4","5","6","7","8","9">>

\* a count inside a template literal: its decimal digits
RECURSIVE DecimalString(_)
DecimalString(n) ==
  IF n < 10 THEN <<DigitChars[n + 1]>>
  ELSE DecimalString(n \div 10) \o <<DigitChars[(n % 10) + 1]>>

\* how Array.prototype.join writes an element: null and undefined as the
\* empty string, the number of the model (42) in decimal
ElementString(v) ==
  IF v.k = "string" THEN v.s
  ELSE IF v.k = "number" THEN <<"4","2">>
  ELSE <<>>

\* a faulty variant: the separator also follows the last element
RECURSIVE JoinTrailingSeparator(_, _)
JoinTrailingSeparator(xs, separator) ==
  IF xs = <<>> THEN <<>>
  ELSE ElementString(xs[1]) \o separator \o JoinTrailingSeparator(Tail(xs), separator)

\* xs.join(separator)
RECURSIVE Join(_, _)
Join(xs, separator) ==
  IF xs = <<>> THEN <<>>
  ELSE IF Len(xs) = 1 THEN ElementString(xs[1])
  ELSE ElementString(xs[1]) \o separator \o Join(Tail(xs), separator)

\* `Emails found (${n}):\n`
HeaderLine(n) ==
  <<"E","m","a","i","l","s"," ","f","o","u","n","d"," ","(">> \o DecimalString(n) \o <<")",":","\n">>

\* a faulty variant: the header counts the emails passed
formatEmailsForClipboardCountsInput(emails, options) ==
  IF emails.k # "array" \/ Len(emails.a) = 0 THEN <<>>
  ELSE
    LET config == ClipboardConfig(options)
        uniqueEmails == SetSpread(emails.a)
    IN (IF config.includeHeaders THEN HeaderLine(Len(emails.a)) ELSE <<>>)
         \o Join(uniqueEmails, config.separator)

\* formatEmailsForClipboard
formatEmailsForClipboard(emails, options) ==
  IF emails.k # "array" \/ Len(emails.a) = 0 THEN <<>>
  ELSE
    LET config == ClipboardConfig(options)
        uniqueEmails == SetSpread(emails.a)
    IN (IF config.includeHeaders THEN HeaderLine(Len(uniqueEmails)) ELSE <<>>)
         \o Join(uniqueEmails, config.separator)

\* the messages of copyEmailsToClipboard
NO_EMAILS_TO_COPY == <<"N","o"," ","e","m","a","i","l","s"," ","t","o"," ","c","o","p","y">>

FAILED_TO_COPY == <<"F","a","i","l","e","d"," ","t","o"," ","c","o","p","y"," ","t","o"," ","c","l","i","p","b","o","a","r","d","."," ","P","l","e","a","s","e"," ","t","r","y"," ","a","g","a","i","n",".">>

\* `${count} email${count === 1 ? '' : 's'} copied to clipboard!`
CopiedMessage(count) ==
  DecimalString(count) \o <<" ","e","m","a","i","l">>
    \o (IF count = 1 THEN <<>> ELSE <<"s">>) \o <<" ","c","o","p","i","e","d"," ","t","o"," ","c","l","i","p","b","o","a","r","d","!">>

\* a faulty variant: success is reported whatever copyToClipboard returned
CopyEmailsResultAlwaysSuccess(success, emails) ==
  [success |-> TRUE, message |-> CopiedMessage(Len(emails.a))]

\* what copyEmailsToClipboard returns once copyToClipboard has returned
\* success
CopyEmailsResult(success, emails) ==
  IF success
    THEN [success |-> TRUE, message |-> CopiedMessage(Len(emails.a))]
    ELSE [success |-> FALSE, message |-> FAILED_TO_COPY]

\* the texts handed to copyToClipboard
ClipTexts ==
  {Str(s) : s \in Concats(1)} \cup {Str(ExampleContent), Null, Undefined, Num}

\* the example of section 8 of the specification: a@x.com, b@y.com
FormatExample ==
  << Str(<<"a","@","x",".","c","o","m">>), Str(<<"b","@","y",".","c","o","m">>) >>

\* the values handed as emails
ClipEmailInputs ==
  {Arr(a) : a \in ArrayInputs} \cup {Arr(FormatExample), Null, Str(ExampleContent)}

ClipboardOptionValues ==
  {[hasSeparator |-> sep # <<>>, separator |-> sep,
    hasIncludeHeaders |-> h, includeHeaders |-> h] :
      sep \in {<<>>, <<",", " ">>, <<"@">>}, h \in BOOLEAN}

\* either a text for copyToClipboard or emails for the two functions above
ClipInit ==
  /\ \/ clipText \in ClipTexts /\ clipEmails = Undefined
     \/ clipText = Undefined /\ clipEmails \in ClipEmailInputs
  /\ hasClipboardApi \in BOOLEAN
  /\ isSecureContext \in BOOLEAN
  /\ clipPc = "idle"
  /\ clipResult = FALSE
  /\ primitive = "untried"
  /\ fallback = "untried"
  /\ clipboard = <<>>
  /\ ExportIdle
  /\ EmailIdle
  /\ UiInit

\* copyToClipboardFallback(text): execCommand('copy') answers true or false
\* or a step of the DOM work throws, which the function turns into false.
\* outcome: "copied", "refused", "throws".
copyToClipboardFallback(outcome) == outcome = "copied"

\* copyToClipboard(text) up to its first await: an invalid text throws into
\* the catch, the Clipboard API is awaited when it is there in a secure
\* context, and otherwise the fallback decides
CopyToClipboardBegins(text) ==
  IF Falsy(text) \/ text.k # "string"
       THEN /\ clipPc' = "returned"
            /\ clipResult' = FALSE
            /\ UNCHANGED <<primitive, fallback, clipboard>>
     ELSE IF hasClipboardApi /\ isSecureContext
       THEN /\ clipPc' = "writeText"
            /\ UNCHANGED <<clipResult, primitive, fallback, clipboard>>
     ELSE \E outcome \in {"copied", "refused", "throws"} :
            /\ clipPc' = "returned"
            /\ clipResult' = copyToClipboardFallback(outcome)
            /\ fallback' = IF outcome = "copied" THEN "ok" ELSE "failed"
            /\ clipboard' = IF outcome = "copied" THEN text.s ELSE clipboard
            /\ UNCHANGED primitive

\* copyToClipboard(clipText), called on its own
CopyToClipboardCall ==
  /\ clipPc = "idle"
  /\ copyPc = "idle"
  /\ CopyToClipboardBegins(clipText)
  /\ UNCHANGED <<clipText, hasClipboardApi, isSecureContext,
                 clipEmails, clipOpts, formatted, copyPc, copyRet, emailVars, uiVars>>

\* copyEmailsToClipboard resumes after await copyToClipboard(formattedText)
\* when it is the caller
CopyEmailsResumes(success) ==
  IF copyPc = "awaiting"
    THEN /\ copyPc' = "returned"
         /\ copyRet' = CopyEmailsResult(success, clipEmails)
    ELSE UNCHANGED <<copyPc, copyRet>>

\* navigator.clipboard.writeText(text) resolves: return true
WriteTextResolves ==
  /\ clipPc = "writeText"
  /\ clipPc' = "returned"
  /\ clipResult' = TRUE
  /\ primitive' = "ok"
  /\ clipboard' = clipText.s
  /\ CopyEmailsResumes(TRUE)
  /\ UNCHANGED <<clipText, hasClipboardApi, isSecureContext, fallback,
                 clipEmails, clipOpts, formatted, emailVars, uiVars>>

\* navigator.clipboard.writeText(text) rejects: the catch returns false
WriteTextRejects ==
  /\ clipPc = "writeText"
  /\ clipPc' = "returned"
  /\ clipResult' = FALSE
  /\ primitive' = "failed"
  /\ CopyEmailsResumes(FALSE)
  /\ UNCHANGED <<clipText, hasClipboardApi, isSecureContext, fallback, clipboard,
                 clipEmails, clipOpts, formatted, emailVars, uiVars>>

\* formatEmailsForClipboard(clipEmails, options), called on its own
FormatCall ==
  /\ clipPc = "idle"
  /\ copyPc = "idle"
  /\ \E options \in ClipboardOptionValues :
       /\ clipOpts' = options
       /\ formatted' = formatEmailsForClipboard(clipEmails, options)
  /\ copyPc' = "formatted"
  /\ UNCHANGED <<clipText, hasClipboardApi, isSecureContext, clipPc, clipResult,
                 primitive, fallback, clipboard, clipEmails, copyRet,
                 emailVars, uiVars>>

\* copyEmailsToClipboard(clipEmails, options) up to its await: nothing to
\* copy, or the emails are formatted and copyToClipboard begins; when that
\* returns without awaiting the Clipboard API the function resumes at once
CopyEmailsCall ==
  /\ clipPc = "idle"
  /\ copyPc = "idle"
  /\ \E options \in ClipboardOptionValues :
       /\ clipOpts' = options
       /\ IF clipEmails.k # "array" \/ Len(clipEmails.a) = 0
            THEN /\ copyPc' = "returned"
                 /\ copyRet' = [success |-> FALSE, message |-> NO_EMAILS_TO_COPY]
                 /\ UNCHANGED <<formatted, clipText, clipPc, clipResult,
                                primitive, fallback, clipboard>>
            ELSE LET formattedText == formatEmailsForClipboard(clipEmails, options) IN
                 /\ formatted' = formattedText
                 /\ clipText' = Str(formattedText)
                 /\ CopyToClipboardBegins(Str(formattedText))
                 /\ IF clipPc' = "returned"
                      THEN /\ copyPc' = "returned"
                           /\ copyRet' = CopyEmailsResult(clipResult', clipEmails)
                      ELSE /\ copyPc' = "awaiting"
                           /\ UNCHANGED copyRet
  /\ UNCHANGED <<hasClipboardApi, isSecureContext, clipEmails, emailVars, uiVars>>

ClipNext ==
  \/ CopyToClipboardCall
  \/ WriteTextResolves
  \/ WriteTextRejects
  \/ FormatCall
  \/ CopyEmailsCall

SpecClip == ClipInit /\ [][ClipNext]_vars

\* ------------------------------------------------------------------------
\* ScrapeButton.ts: the scrape button
\* ------------------------------------------------------------------------
\* the button element as the methods below read and write it
Button == [disabled |-> btnDisabled, text |-> btnText, classes |-> btnClasses]

ButtonBecomes(b) ==
  /\ btnDisabled' = b.disabled
  /\ btnText' = b.text
  /\ btnClasses' = b.classes

\* setScrapingState(on), the button's part; isScraping becomes on
setScrapingState(b, on) ==
  IF on
    THEN [disabled |-> TRUE, text |-> "Scraping...", classes |-> b.classes \cup {"scraping"}]
    ELSE [disabled |-> FALSE, text |-> "Scrape", classes |-> b.classes \ {"scraping"}]

\* showSuccessState, the button's part; it also sets a 2000 ms timer
showSuccessState(b) ==
  [b EXCEPT !.classes = @ \cup {"success"}, !.text = "Success!"]

\* handleScrapingError, the button's part; it also dispatches scrapingError
\* and sets a 3000 ms timer
handleScrapingError(b) ==
  [b EXCEPT !.classes = @ \cup {"error"}, !.text = "Error!"]

InFlight == {i \in 1..MaxInvocations : inv[i] # "idle"}

PendingTimers == successTimers + errorTimers

\* A click on the button while isScraping: handleScrapeClick returns at its
\* guard, and its finally block runs setScrapingState(false).  A disabled
\* button dispatches no click.
ClickWhileScraping ==
  /\ ~btnDisabled
  /\ isScraping
  /\ isScraping' = FALSE
  /\ ButtonBecomes(setScrapingState(Button, FALSE))
  /\ UNCHANGED <<inv, successTimers, errorTimers, errorEvent, emailVars, clipVars, popupVars, locals>>

\* A click while not scraping: setScrapingState(true), then
\* performEmailScraping runs up to its first await, inside checkPermissions.
ClickStartsScrape(i) ==
  /\ ~btnDisabled
  /\ ~isScraping
  /\ inv[i] = "idle"
  /\ Cardinality(InFlight) + PendingTimers < MaxTimers
  /\ isScraping' = TRUE
  /\ ButtonBecomes(setScrapingState(Button, TRUE))
  /\ inv' = [inv EXCEPT ![i] = "checkPermissions"]
  /\ UNCHANGED <<successTimers, errorTimers, errorEvent, emailVars, clipVars, popupVars, locals>>

\* invocation i returns: its locals are gone
LocalsGone(i) ==
  /\ hasPermissions' = [hasPermissions EXCEPT ![i] = "unset"]
  /\ granted' = [granted EXCEPT ![i] = "unset"]

\* the rest of invocation i once performEmailScraping has thrown: the catch
\* of handleScrapeClick runs handleScrapingError, the finally block
\* setScrapingState(false)
ScrapeFails(i, message) ==
  /\ errorEvent' = message
  /\ errorTimers' = errorTimers + 1
  /\ isScraping' = FALSE
  /\ ButtonBecomes(setScrapingState(handleScrapingError(Button), FALSE))
  /\ inv' = [inv EXCEPT ![i] = "idle"]
  /\ LocalsGone(i)
  /\ UNCHANGED <<successTimers, emailVars, clipVars, popupVars>>

\* the rest of invocation i once executeScript has resolved:
\* showSuccessState, then the finally block
ScrapeSucceeds(i) ==
  /\ successTimers' = successTimers + 1
  /\ isScraping' = FALSE
  /\ ButtonBecomes(setScrapingState(showSuccessState(Button), FALSE))
  /\ inv' = [inv EXCEPT ![i] = "idle"]
  /\ LocalsGone(i)
  /\ UNCHANGED <<errorTimers, errorEvent, emailVars, clipVars, popupVars>>

\* invocation i goes on to its next await, the button untouched
Awaits(i, where) ==
  /\ inv' = [inv EXCEPT ![i] = where]
  /\ UNCHANGED <<isScraping, btnDisabled, btnText, btnClasses,
                 successTimers, errorTimers, errorEvent, emailVars, clipVars, popupVars>>

\* ChromeService.checkPermissions settles: true when getAll lists both
\* permissions, false when it does not or rejects
PermissionsChecked(i) ==
  /\ inv[i] = "checkPermissions"
  /\ \E has \in BOOLEAN :
       /\ hasPermissions' = [hasPermissions EXCEPT ![i] = IF has THEN "true" ELSE "false"]
       /\ UNCHANGED granted
       /\ IF has THEN Awaits(i, "getActiveTab")
          ELSE Awaits(i, "requestPermissions: checkPermissions")

\* the checkPermissions call inside requestPermissions settles
RequestPermissionsChecked(i) ==
  /\ inv[i] = "requestPermissions: checkPermissions"
  /\ \E has \in BOOLEAN :
       IF has THEN /\ granted' = [granted EXCEPT ![i] = "true"]
                   /\ UNCHANGED hasPermissions
                   /\ Awaits(i, "getActiveTab")
       ELSE /\ UNCHANGED locals
            /\ Awaits(i, "requestPermissions: request")

\* a faulty variant: the scrape goes on whatever the request answered
PermissionsRequestedIgnoresRefusal(i) ==
  /\ inv[i] = "requestPermissions: request"
  /\ \E answer \in BOOLEAN :
       /\ granted' = [granted EXCEPT ![i] = IF answer THEN "true" ELSE "false"]
       /\ UNCHANGED hasPermissions
       /\ Awaits(i, "getActiveTab")

\* chrome.permissions.request settles: granted, or refused or rejected
PermissionsRequested(i) ==
  /\ inv[i] = "requestPermissions: request"
  /\ \E answer \in BOOLEAN :
       IF answer THEN /\ granted' = [granted EXCEPT ![i] = "true"]
                      /\ UNCHANGED hasPermissions
                      /\ Awaits(i, "getActiveTab")
       ELSE ScrapeFails(i, "Required permissions not granted")

\* chrome.tabs.query settles inside getActiveTab: a tab, or none or a
\* rejection, which executeScript rethrows under its own message
ActiveTabQueried(i) ==
  /\ inv[i] = "getActiveTab"
  /\ \E found \in BOOLEAN :
       IF found THEN Awaits(i, "executeScript") /\ UNCHANGED locals
       ELSE ScrapeFails(i, "Failed to execute script in tab")

\* chrome.scripting.executeScript settles
ScriptExecuted(i) ==
  /\ inv[i] = "executeScript"
  /\ \E done \in BOOLEAN :
       IF done THEN ScrapeSucceeds(i)
       ELSE ScrapeFails(i, "Failed to execute script in tab")

\* the 2000 ms callback of showSuccessState
SuccessResetFires ==
  /\ successTimers > 0
  /\ successTimers' = successTimers - 1
  /\ btnClasses' = btnClasses \ {"success"}
  /\ btnText' = "Scrape"
  /\ UNCHANGED <<isScraping, btnDisabled, inv, errorTimers, errorEvent,
                 emailVars, clipVars, popupVars, locals>>

\* the 3000 ms callback of handleScrapingError
ErrorResetFires ==
  /\ errorTimers > 0
  /\ errorTimers' = errorTimers - 1
  /\ btnClasses' = btnClasses \ {"error"}
  /\ btnText' = "Scrape"
  /\ UNCHANGED <<isScraping, btnDisabled, inv, successTimers, errorEvent,
                 emailVars, clipVars, popupVars, locals>>

\* enable()
Enable ==
  /\ btnDisabled' = FALSE
  /\ btnClasses' = btnClasses \ {"disabled"}
  /\ UNCHANGED <<isScraping, btnText, inv, successTimers, errorTimers, errorEvent,
                 emailVars, clipVars, popupVars, locals>>

\* disable()
Disable ==
  /\ btnDisabled' = TRUE
  /\ btnClasses' = btnClasses \cup {"disabled"}
  /\ UNCHANGED <<isScraping, btnText, inv, successTimers, errorTimers, errorEvent,
                 emailVars, clipVars, popupVars, locals>>

\* the labels callers pass to setButtonText
ButtonTexts == {"Scrape", "Retry"}

\* setButtonText(text)
SetButtonText ==
  /\ \E text \in ButtonTexts : btnText' = text
  /\ UNCHANGED <<isScraping, btnDisabled, btnClasses, inv, successTimers,
                 errorTimers, errorEvent, emailVars, clipVars, popupVars, locals>>

Init == UiInit /\ EmailIdle /\ ClipIdle

Next ==
  \/ ClickWhileScraping
  \/ \E i \in 1..MaxInvocations :
       \/ ClickStartsScrape(i)
       \/ PermissionsChecked(i)
       \/ RequestPermissionsChecked(i)
       \/ PermissionsRequested(i)
       \/ ActiveTabQueried(i)
       \/ ScriptExecuted(i)
  \/ SuccessResetFires
  \/ ErrorResetFires
  \/ Enable
  \/ Disable
  \/ SetButtonText

Spec == Init /\ [][Next]_vars

\* Every call a scrape awaits settles, and the event loop runs the callbacks
\* of elapsed timers.
Settling ==
  /\ \A i \in 1..MaxInvocations :
       /\ WF_vars(PermissionsChecked(i))
       /\ WF_vars(RequestPermissionsChecked(i))
       /\ WF_vars(PermissionsRequested(i))
       /\ WF_vars(ActiveTabQueried(i))
       /\ WF_vars(ScriptExecuted(i))
  /\ WF_vars(SuccessResetFires)
  /\ WF_vars(ErrorResetFires)

SpecLive == Init /\ [][Next]_vars /\ Settling

\* ------------------------------------------------------------------------
\* PopupApp and EmailList: scrape results and the message element
\* ------------------------------------------------------------------------
\* the emails payloads of well-formed messages
PopupPayloads ==
  {<<>>, <<FormatExample[1]>>, <<FormatExample[2]>>, FormatExample,
   <<FormatExample[2], FormatExample[1], FormatExample[2]>>}

\* the messages the listener receives: well-formed ones, no message, a
\* message without emails, a message whose emails is a string
ChromeMessages ==
  {[present |-> TRUE, emails |-> Arr(p)] : p \in PopupPayloads}
    \cup {NoMessage,
          [present |-> TRUE, emails |-> Undefined],
          [present |-> TRUE, emails |-> Str(FormatExample[1].s)]}

\* the messages of the scrapingError events the popup hears
ScrapingErrorTexts ==
  {<<"R","e","q","u","i","r","e","d"," ","p","e","r","m","i","s","s","i","o","n","s"," ","n","o","t"," ","g","r","a","n","t","e","d">>, <<"N","o"," ","a","c","t","i","v","e"," ","t","a","b"," ","f","o","u","n","d">>}

\* `Found ${emails.length} email${emails.length === 1 ? '' : 's'}`
FoundMessage(n) ==
  <<"F","o","u","n","d"," ">> \o DecimalString(n) \o <<" ","e","m","a","i","l">>
    \o (IF n = 1 THEN <<>> ELSE <<"s">>)

\* a faulty variant: the result is merged into the held list
updateEmailsMerges(held, emails) == held \o emails

\* EmailList.updateEmails, the held list: this.emails = emails
updateEmails(held, emails) == emails

\* a text is put in the message element under a class and a callback to
\* hide the element is set: showMessage, showError, showSuccessMessage,
\* showErrorMessage
ShowInMessageElement(text, class, duration) ==
  /\ msgText' = text
  /\ msgDisplay' = "block"
  /\ msgClass' = class
  /\ hideTimers' =
       Append([i \in 1..Len(hideTimers) |-> [hideTimers[i] EXCEPT !.current = FALSE]],
              [duration |-> duration, current |-> TRUE])

\* a faulty variant: the clipboard button is shown for every well-formed
\* message, an empty result included
HandleChromeMessageAlwaysShows(message) ==
  /\ Len(hideTimers) < MaxTimers
  /\ chromeMessage' = message
  /\ IF ~message.present \/ message.emails.k # "array"
       THEN UNCHANGED <<listEmails, listItems, clipboardDisplay,
                        msgText, msgDisplay, msgClass, hideTimers>>
       ELSE LET emails == message.emails.a IN
            /\ listEmails' = updateEmails(listEmails, emails)
            /\ listItems' = listEmails'
            /\ ShowInMessageElement(FoundMessage(Len(emails)), "message success", 3000)
            /\ clipboardDisplay' = "flex"
  /\ UNCHANGED <<emailVars, clipVars, buttonVars>>

\* PopupApp.handleChromeMessage(message): a malformed message is ignored;
\* otherwise EmailList.updateEmails replaces the list, renders it and shows
\* the count for 3000 ms, and the clipboard button is shown or hidden
HandleChromeMessage(message) ==
  /\ Len(hideTimers) < MaxTimers
  /\ chromeMessage' = message
  /\ IF ~message.present \/ message.emails.k # "array"
       THEN UNCHANGED <<listEmails, listItems, clipboardDisplay,
                        msgText, msgDisplay, msgClass, hideTimers>>
       ELSE LET emails == message.emails.a IN
            /\ listEmails' = updateEmails(listEmails, emails)
            /\ listItems' = listEmails'
            /\ ShowInMessageElement(FoundMessage(Len(emails)), "message success", 3000)
            /\ clipboardDisplay' = IF Len(emails) > 0 THEN "flex" ELSE "none"
  /\ UNCHANGED <<emailVars, clipVars, buttonVars>>

\* the scrapingError listener of PopupApp: showErrorMessage(detail.message),
\* shown for 5000 ms
ScrapingErrorHeard(message) ==
  /\ Len(hideTimers) < MaxTimers
  /\ ShowInMessageElement(message, "message error", 5000)
  /\ UNCHANGED <<chromeMessage, listEmails, listItems, clipboardDisplay,
                 emailVars, clipVars, buttonVars>>

\* the callback i of a message display fires and hides the message element;
\* a callback set earlier with a delay no longer than its own fires first
HideTimerFires(i) ==
  /\ i \in 1..Len(hideTimers)
  /\ \A j \in 1..(i - 1) : hideTimers[j].duration > hideTimers[i].duration
  /\ msgDisplay' = "none"
  /\ msgClass' = ""
  /\ hideTimers' = [n \in 1..(Len(hideTimers) - 1) |->
                      IF n < i THEN hideTimers[n] ELSE hideTimers[n + 1]]
  /\ UNCHANGED <<chromeMessage, listEmails, listItems, clipboardDisplay, msgText,
                 emailVars, clipVars, buttonVars>>

PopupNext ==
  \/ \E message \in ChromeMessages : HandleChromeMessage(message)
  \/ \E message \in ScrapingErrorTexts : ScrapingErrorHeard(message)
  \/ \E i \in 1..MaxTimers : HideTimerFires(i)

SpecPopup == Init /\ [][PopupNext]_vars

\* ------------------------------------------------------------------------
\* Vocabulary of the properties
\* ------------------------------------------------------------------------
\* the strict grammar in words: exactly one @, a non-empty local part of
\* letters, digits and . _ % + -, a domain of letters, digits, . and - that
\* contains a dot, a final label of at least two letters
StrictGrammar(s) ==
  LET ats == {i \in 1..Len(s) : s[i] = "@"} IN
  /\ Cardinality(ats) = 1
  /\ LET at == CHOOSE i \in ats : TRUE
         dots == {i \in (at + 1)..Len(s) : s[i] = "."}
     IN /\ at > 1
        /\ \A i \in 1..(at - 1) : IsLocalChar(s[i])
        /\ \A i \in (at + 1)..Len(s) : IsDomainChar(s[i])
        /\ dots # {}
        /\ Len(s) - Max(dots) >= 2
        /\ \A i \in (Max(dots) + 1)..Len(s) : IsLetter(s[i])

\* s is local@domain.tld: local and domain non-empty and of their classes,
\* tld at least two letters
IsLocalAtDomainDotTld(s) ==
  \E at \in 2..Len(s) : \E dot \in (at + 2)..(Len(s) - 2) :
    /\ s[at] = "@"
    /\ s[dot] = "."
    /\ \A i \in 1..(at - 1) : IsLocalChar(s[i])
    /\ \A i \in (at + 1)..(dot - 1) : IsDomainChar(s[i])
    /\ \A i \in (dot + 1)..Len(s) : IsLetter(s[i])

\* equal under case-insensitive, whitespace-trimmed comparison
NormalForm(s) == Trim(ToLowerCase(s))

\* the elements of xs at the positions idx, in the order of xs
ElementsAt(xs, idx) ==
  [n \in 1..Cardinality(idx) |->
     xs[CHOOSE i \in idx : Cardinality({j \in idx : j < i}) = n - 1]]

\* the positions of xs whose key occurs at no earlier position
FirstOccurrences(xs, Key(_)) ==
  {i \in 1..Len(xs) : \A j \in 1..(i - 1) : Key(xs[j]) # Key(xs[i])}

AllStrings(v) == v.k = "array" /\ \A i \in 1..Len(v.a) : v.a[i].k = "string"

Strings(xs) == [i \in 1..Len(xs) |-> Str(xs[i])]

Extracted == fn = "extractEmailsFromHTML"

\* ------------------------------------------------------------------------
\* Properties of the email utilities
\* ------------------------------------------------------------------------
\* C3: without includeDuplicates, no two entries of the sequence
\* extractEmailsFromHTML returns are equal under case-insensitive,
\* whitespace-trimmed comparison.
C3_NoCaseInsensitiveDuplicates ==
  (Extracted /\ ~opts.includeDuplicates) =>
     \A i, j \in 1..Len(ret.arr) :
        i # j => NormalForm(ret.arr[i].s) # NormalForm(ret.arr[j].s)

\* the content held the same address in two casings, and one entry came out
C3_Witness ==
  /\ Extracted /\ ~opts.includeDuplicates /\ arg.k = "string"
  /\ LET m == MatchEmailRegex(arg.s)
     IN \E i, j \in 1..Len(m) : m[i] # m[j] /\ NormalForm(m[i]) = NormalForm(m[j])
  /\ Len(ret.arr) >= 1

\* what C4 expects of a content: the normal forms of the scan matches that
\* pass the strict grammar, at their first occurrences
ExpectedDefault(content) ==
  LET m == MatchEmailRegex(content)
      norm == [i \in 1..Len(m) |-> NormalForm(m[i])]
      Same(x) == x
  IN ElementsAt(norm, {i \in FirstOccurrences(norm, Same) : StrictGrammar(norm[i])})

JaneAndBob ==
  << <<"j","a","n","e","@","e","x","a","m","p","l","e",".","c","o","m">>,
     <<"b","o","b","@","s","u","b",".","e","x","a","m","p","l","e",".","c","o",".","u","k">> >>

\* C4: with default options extractEmailsFromHTML returns exactly the
\* trimmed, lower-cased scan matches that pass the strict grammar, each once,
\* in the order of first occurrence; the example content yields exactly
\* jane@example.com, bob@sub.example.co.uk.
C4_DefaultExtraction ==
  (Extracted /\ opts = DefaultOptions /\ arg.k = "string") =>
     /\ ret.arr = Strings(ExpectedDefault(arg.s))
     /\ arg.s = ExampleContent => ret.arr = Strings(JaneAndBob)

\* the example content was extracted: two casings of one address, a token
\* that is no email, and a second address
C4_Witness ==
  /\ Extracted /\ opts = DefaultOptions
  /\ arg = Str(ExampleContent)
  /\ Len(ret.arr) = 2

\* C5: every entry extractEmailsFromHTML returns, for any content and any
\* options, satisfies the strict grammar and is trimmed and lower-case.
C5_EntriesAreStrictLowerTrimmed ==
  Extracted =>
     \A i \in 1..Len(ret.arr) :
        /\ ret.arr[i].k = "string"
        /\ StrictGrammar(ret.arr[i].s)
        /\ Trim(ret.arr[i].s) = ret.arr[i].s
        /\ ToLowerCase(ret.arr[i].s) = ret.arr[i].s

\* duplicates kept, a filter given, and an upper-case match came out in
\* lower case
C5_Witness ==
  /\ Extracted /\ opts.includeDuplicates /\ opts.filter.present
  /\ arg.k = "string"
  /\ \E i \in 1..Len(MatchEmailRegex(arg.s)) :
        ToLowerCase(MatchEmailRegex(arg.s)[i]) # MatchEmailRegex(arg.s)[i]
  /\ Len(ret.arr) >= 2

\* a content that is no usable string: absent, null, empty or not a string
Unusable(v) == v.k # "string" \/ v.s = <<>>

\* C6: on a content that is no usable string extractEmailsFromHTML returns
\* an empty sequence and neither raises nor rejects.
C6_UnusableContentGivesEmpty ==
  (Extracted /\ Unusable(arg)) => (~ret.raised /\ ret.arr = <<>>)

\* extraction was called on undefined
C6_Witness == Extracted /\ arg = Undefined /\ ret.arr = <<>> /\ ~ret.raised

\* C7: removeDuplicateEmails is total: whatever the input, a non-array or
\* an array holding elements that are no strings included, it returns a
\* sequence (empty for a non-array) and lets no fault escape.
C7_DedupeTotal ==
  fn = "removeDuplicateEmails" =>
     /\ ~ret.raised
     /\ arg.k # "array" => ret.arr = <<>>

\* what C8 expects: the unmodified elements at the first occurrence of each
\* class under lower-casing and trimming
ExpectedDedupe(xs) ==
  LET Key(x) == NormalForm(x.s)
  IN ElementsAt(xs, FirstOccurrences(xs, Key))

AxABy ==
  << Str(<<"A","@","x",".","c","o","m">>),
     Str(<<"a","@","x",".","c","o","m">>),
     Str(<<"B","@","y",".","c","o","m">>) >>

\* C8: on a sequence of strings removeDuplicateEmails returns the first
\* occurrence of each class of strings equal after lower-casing and
\* trimming, in input order, each as the unmodified first-seen literal;
\* A@x.com, a@x.com, B@y.com gives A@x.com, B@y.com.
C8_DedupeFirstOccurrences ==
  (fn = "removeDuplicateEmails" /\ AllStrings(arg)) =>
     /\ ~ret.raised
     /\ ret.arr = ExpectedDedupe(arg.a)
     /\ arg.a = AxABy => ret.arr = <<AxABy[1], AxABy[3]>>

\* the example of the specification was deduplicated
C8_Witness ==
  /\ fn = "removeDuplicateEmails"
  /\ arg = Arr(AxABy)
  /\ Len(ret.arr) = 2

\* C9: removeDuplicateEmails is idempotent on sequences of strings: called
\* on its own result it returns that result.
C9_DedupeIdempotent ==
  (fn = "removeDuplicateEmails twice" /\ AllStrings(arg)) =>
     (~ret.raised /\ ret.arr = prev.arr)

\* the first call dropped something and kept at least two entries, and the
\* second call was made
C9_Witness ==
  /\ fn = "removeDuplicateEmails twice"
  /\ AllStrings(arg)
  /\ Len(prev.arr) >= 2
  /\ Len(prev.arr) < Len(arg.a)

\* C10 as stated: isValidEmail is false for every string that is not itself
\* valid under the strict grammar, a valid email with leading or trailing
\* white space and the empty string included, and true for every
\* local@domain.tld.
C10_ValidOnlyIfStrict ==
  (fn = "isValidEmail" /\ arg.k = "string") =>
     /\ ret.bool => StrictGrammar(arg.s)
     /\ IsLocalAtDomainDotTld(arg.s) => ret.bool

\* C10 amended: isValidEmail is false for every string whose trimmed form
\* is not valid under the strict grammar (the empty string included) and
\* for every value that is no string, and true for every local@domain.tld.
C10_ValidOnlyIfTrimmedStrict ==
  fn = "isValidEmail" =>
     /\ arg.k # "string" => ~ret.bool
     /\ arg.k = "string" =>
          /\ ret.bool => StrictGrammar(Trim(arg.s))
          /\ IsLocalAtDomainDotTld(arg.s) => ret.bool

\* a valid email with white space before it was accepted
C10_Witness ==
  /\ fn = "isValidEmail"
  /\ arg.k = "string"
  /\ Trim(arg.s) # arg.s
  /\ ret.bool

\* the content holds one address in two different casings
HasTwoCasings(content) ==
  LET m == MatchEmailRegex(content)
  IN \E i, j \in 1..Len(m) : m[i] # m[j] /\ NormalForm(m[i]) = NormalForm(m[j])

\* how many entries of xs equal x
Occurrences(xs, x) == Cardinality({i \in 1..Len(xs) : xs[i] = x})

KeptDuplicates ==
  /\ Extracted /\ arg.k = "string"
  /\ opts.k = "object" /\ opts.includeDuplicates /\ ~opts.filter.present

\* C11 as stated: with includeDuplicates, a content holding one address in
\* two casings yields an output that retains both casings: every scan match
\* is an entry as it was written.
C11_BothCasingsRetained ==
  (KeptDuplicates /\ HasTwoCasings(arg.s)) =>
     \A i \in 1..Len(MatchEmailRegex(arg.s)) :
        Occurrences(ret.arr, Str(MatchEmailRegex(arg.s)[i])) >= 1

\* C11 amended: with includeDuplicates, every occurrence of an address is
\* retained, each as its lower-cased form: the output is the sequence of the
\* lower-cased scan matches, so an address written in two casings comes out
\* as two equal lower-case entries.
C11_BothOccurrencesRetainedLowerCased ==
  KeptDuplicates =>
     LET m == MatchEmailRegex(arg.s)
     IN ret.arr = [i \in 1..Len(m) |-> Str(NormalForm(m[i]))]

\* the example content was extracted with includeDuplicates: jane twice,
\* then bob
C11_Witness ==
  /\ KeptDuplicates
  /\ arg = Str(ExampleContent)
  /\ HasTwoCasings(arg.s)
  /\ Len(ret.arr) = 3
  /\ ret.arr[1] = ret.arr[2]

\* the contents the model extracts from
ContentInputs == Concats(MaxPieces) \cup {ExampleContent}

MatchesPattern(pat, email) == IndexOfFrom(email, pat.lit, 1) # 0

\* C13: with a filterPattern the output is exactly the subsequence, in the
\* same order, of the output without the filter made of the entries that
\* match the pattern; without a pattern the output is unchanged.
C13_FilterKeepsExactlyTheMatching ==
  (Extracted /\ arg.k = "string" /\ opts.k = "object") =>
     LET unfiltered == extractEmailsFromHTML(arg, [opts EXCEPT !.filter = NoFilter]).emails
         Matching(email) == MatchesPattern(opts.filter, email)
     IN ret.arr = Strings(IF opts.filter.present
                            THEN SelectSeq(unfiltered, Matching)
                            ELSE unfiltered)

\* ------------------------------------------------------------------------
\* Properties of the clipboard formatting
\* ------------------------------------------------------------------------
Formatted == copyPc = "formatted"

NothingToFormat == clipEmails.k # "array" \/ Len(clipEmails.a) = 0

\* the separator in force: the one passed, ',' when none is
SeparatorInForce == IF clipOpts.hasSeparator THEN clipOpts.separator ELSE <<",">>

HeadersInForce == clipOpts.hasIncludeHeaders /\ clipOpts.includeHeaders

\* the entries of xs that occur at no earlier position, in the order of xs
Retained(xs) == ElementsAt(xs, FirstOccurrences(xs, LAMBDA x : x))

\* the strings ss[from..] written one after the other, separator between
RECURSIVE Interleaved(_, _, _)
Interleaved(ss, separator, from) ==
  IF from > Len(ss) THEN <<>>
  ELSE (IF from > 1 THEN separator ELSE <<>>) \o ss[from].s
         \o Interleaved(ss, separator, from + 1)

\* the line 'Emails found (<n>):' and a line break
ExpectedHeader(n) == <<"E","m","a","i","l","s"," ","f","o","u","n","d"," ","(">> \o DecimalString(n) \o <<")",":">> \o <<"\n">>

\* C14: formatEmailsForClipboard returns the empty string for an empty or
\* non-array input under any options; for a non-empty input of strings it
\* returns the exact-string-distinct emails in input order joined by the
\* separator in force, after the header line counting the retained emails
\* when includeHeaders is true; the example of the specification included.
C14_FormatIsHeaderThenJoined ==
  Formatted =>
    /\ NothingToFormat => formatted = <<>>
    /\ (~NothingToFormat /\ AllStrings(clipEmails)) =>
         LET retained == Retained(clipEmails.a) IN
         formatted =
           (IF HeadersInForce THEN ExpectedHeader(Len(retained)) ELSE <<>>)
             \o Interleaved(retained, SeparatorInForce, 1)
    /\ (clipEmails = Arr(FormatExample) /\ HeadersInForce
          /\ SeparatorInForce = <<",", " ">>) =>
         formatted = <<"E","m","a","i","l","s"," ","f","o","u","n","d"," ","(","2",")",":","\n","a","@","x",".","c","o","m",","," ","b","@","y",".","c","o","m">>

\* C14 witness: duplicated emails formatted with a header that counts the
\* retained ones, fewer than the emails passed
C14_Witness ==
  /\ Formatted /\ AllStrings(clipEmails) /\ HeadersInForce
  /\ Len(clipEmails.a) = 3
  /\ Len(Retained(clipEmails.a)) = 2
  /\ SubSeq(formatted, 1, Len(ExpectedHeader(2))) = ExpectedHeader(2)

\* sep occurs inside s
OccursIn(sep, s) ==
  \E i \in 1..(Len(s) - Len(sep) + 1) : SubSeq(s, i, i + Len(sep) - 1) = sep

\* s.split(sep) for a non-empty sep: the pieces between the leftmost
\* non-overlapping occurrences of sep
RECURSIVE SplitBy(_, _)
SplitBy(s, sep) ==
  IF ~OccursIn(sep, s) THEN <<s>>
  ELSE LET i == Min({k \in 1..(Len(s) - Len(sep) + 1) :
                        SubSeq(s, k, k + Len(sep) - 1) = sep})
       IN <<SubSeq(s, 1, i - 1)>> \o SplitBy(SubSeq(s, i + Len(sep), Len(s)), sep)

SeparatorIsSafe ==
  \A i \in 1..Len(clipEmails.a) : ~OccursIn(SeparatorInForce, clipEmails.a[i].s)

\* emails formatted without a header under a separator none of them holds,
\* so that the joined emails can be read back from the text
JoinedReadable ==
  /\ Formatted /\ AllStrings(clipEmails) /\ ~NothingToFormat
  /\ ~HeadersInForce /\ SeparatorIsSafe

\* C15: formatEmailsForClipboard deduplicates by exact string identity only:
\* no literal string appears twice among the emails it joins, and every
\* input string is among them as written, so that two inputs differing only
\* in letter-casing or surrounding whitespace both survive.
C15_ExactIdentityDedupe ==
  JoinedReadable =>
    LET joined == SplitBy(formatted, SeparatorInForce) IN
    /\ \A i, j \in 1..Len(joined) : joined[i] = joined[j] => i = j
    /\ \A i \in 1..Len(clipEmails.a) :
         \E j \in 1..Len(joined) : joined[j] = clipEmails.a[i].s

\* C15 witness: an input holding one literal twice and a variant of it in
\* casing and whitespace; the text holds the literal once and the variant
C15_Witness ==
  /\ JoinedReadable
  /\ Len(clipEmails.a) = 3
  /\ clipEmails.a[1] = clipEmails.a[3]
  /\ clipEmails.a[1] # clipEmails.a[2]
  /\ NormalForm(clipEmails.a[1].s) = NormalForm(clipEmails.a[2].s)
  /\ Len(SplitBy(formatted, SeparatorInForce)) = 2

StrictEmails ==
  /\ clipEmails.k = "array"
  /\ \A i \in 1..Len(clipEmails.a) :
       clipEmails.a[i].k = "string" /\ StrictGrammar(clipEmails.a[i].s)

SplitReproducesInput ==
  {SplitBy(formatted, SeparatorInForce)[i] :
      i \in 1..Len(SplitBy(formatted, SeparatorInForce))}
    = {clipEmails.a[i].s : i \in 1..Len(clipEmails.a)}

CopyEmailsReturned == copyPc = "returned"

NoClipboardWrite ==
  primitive = "untried" /\ fallback = "untried" /\ clipboard = <<>>

\* '1 email copied to clipboard!', '<N> emails copied to clipboard!'
ExpectedCopiedMessage(n) ==
  IF n = 1 THEN <<"1"," ","e","m","a","i","l"," ","c","o","p","i","e","d"," ","t","o"," ","c","l","i","p","b","o","a","r","d","!">>
  ELSE DecimalString(n) \o <<" ","e","m","a","i","l","s"," ","c","o","p","i","e","d"," ","t","o"," ","c","l","i","p","b","o","a","r","d","!">>

\* C17: copyEmailsToClipboard reports the outcome faithfully: for an empty
\* or non-array input it returns success = false with 'No emails to copy'
\* and nothing is written to the clipboard; otherwise success is true
\* exactly when copyToClipboard returned true, and the success message is
\* '1 email copied to clipboard!' for one email passed and
\* '<N> emails copied to clipboard!' for any other number.
C17_CopyEmailsReportsOutcome ==
  CopyEmailsReturned =>
    /\ NothingToFormat =>
         /\ copyRet = [success |-> FALSE, message |-> <<"N","o"," ","e","m","a","i","l","s"," ","t","o"," ","c","o","p","y">>]
         /\ NoClipboardWrite
    /\ ~NothingToFormat =>
         /\ clipPc = "returned"
         /\ copyRet.success = clipResult
         /\ copyRet.success =>
              copyRet.message = ExpectedCopiedMessage(Len(clipEmails.a))

\* C17 witness: three emails copied through the Clipboard API and reported
\* in the plural
C17_Witness ==
  /\ CopyEmailsReturned /\ copyRet.success /\ primitive = "ok"
  /\ Len(clipEmails.a) = 3
  /\ copyRet.message = <<"3"," ","e","m","a","i","l","s"," ","c","o","p","i","e","d"," ","t","o"," ","c","l","i","p","b","o","a","r","d","!">>
  /\ clipboard = formatted

\* ------------------------------------------------------------------------
\* Properties of the popup
\* ------------------------------------------------------------------------
WellFormed(message) == message.present /\ message.emails.k = "array"

\* C18: the email list held by EmailList equals the emails payload of the
\* last well-formed message handled, whatever was held before; handling a
\* malformed message leaves the held list and the clipboard button as they
\* were.
C18_ListIsLastWellFormedPayload ==
  /\ [](WellFormed(chromeMessage) => listEmails = chromeMessage.emails.a)
  /\ [][(chromeMessage' # chromeMessage /\ ~WellFormed(chromeMessage'))
          => UNCHANGED <<listEmails, clipboardDisplay>>]_vars

\* C18 witness: a malformed message has been handled after a result of two
\* emails, which the list still holds, the clipboard button still shown
C18_Witness ==
  /\ ~WellFormed(chromeMessage) /\ chromeMessage # NoMessage
  /\ listEmails = FormatExample
  /\ clipboardDisplay = "flex"

\* ------------------------------------------------------------------------
\* Properties of a scrape
\* ------------------------------------------------------------------------
Injecting(i) == inv[i] \in {"getActiveTab", "executeScript"}

\* the request of invocation i settles without a grant
Refused(i) ==
  /\ inv[i] = "requestPermissions: request"
  /\ inv'[i] # inv[i]
  /\ granted'[i] # "true"

\* C20: ChromeService.executeScript is entered only by an invocation whose
\* checkPermissions or requestPermissions returned true; when the request
\* is refused or fails the invocation ends there, no script injected, and
\* 'Required permissions not granted' is the message of the scrapingError
\* event dispatched.
C20_InjectionOnlyWithPermission ==
  /\ [](\A i \in 1..MaxInvocations :
          Injecting(i) => (hasPermissions[i] = "true" \/ granted[i] = "true"))
  /\ [][\A i \in 1..MaxInvocations :
          Refused(i) =>
            /\ inv'[i] = "idle"
            /\ errorEvent' = "Required permissions not granted"
            /\ errorTimers' = errorTimers + 1]_vars

\* C20 witness: a scrape was refused its permissions, and a later one is
\* injecting its script after the request was granted
C20_Witness ==
  /\ errorEvent = "Required permissions not granted"
  /\ \E i \in 1..MaxInvocations :
       inv[i] = "executeScript" /\ hasPermissions[i] = "false" /\ granted[i] = "true"

\* a scrape returns: an invocation in flight becomes idle
ScrapeCompletes == \E i \in 1..MaxInvocations : inv[i] # "idle" /\ inv'[i] = "idle"

\* C19: a scrape leaves the scraping state only when its external calls
\* complete; when every permission and page-scripting call returns, a
\* started scrape leads to isScraping = false with the button enabled; and
\* as long as the page-scripting call has not returned, isScraping is true
\* and the button disabled.
C19_ScrapingStateFollowsTheCalls ==
  /\ [][(isScraping /\ ~isScraping') => ScrapeCompletes]_vars
  /\ \A i \in 1..MaxInvocations :
       (inv[i] # "idle") ~> (~isScraping /\ ~btnDisabled)
  /\ [](\A i \in 1..MaxInvocations :
          inv[i] = "executeScript" => (isScraping /\ btnDisabled))

\* C21: in every reachable state of the scrape button, isScraping implies
\* that the button is disabled and labelled 'Scraping...', whatever clicks,
\* completions, delayed reset callbacks and calls of enable(), disable() and
\* setButtonText() came before.
C21_ScrapingShowsOnTheButton ==
  isScraping => (btnDisabled /\ btnText = "Scraping...")

\* C22: the outcome label set when a scrape completes ('Success!' by
\* showSuccessState, 'Error!' by handleScrapingError) is the button's label
\* when handleScrapeClick returns, and it stays until the delayed reset
\* callback of that outcome restores 'Scrape'.
C22_OutcomeLabelStays ==
  /\ [][/\ (successTimers' = successTimers + 1) => btnText' = "Success!"
        /\ (errorTimers' = errorTimers + 1) => btnText' = "Error!"]_vars
  /\ [][/\ (btnText = "Success!" /\ btnText' # "Success!") =>
             (successTimers' = successTimers - 1 /\ btnText' = "Scrape")
        /\ (btnText = "Error!" /\ btnText' # "Error!") =>
             (errorTimers' = errorTimers - 1 /\ btnText' = "Scrape")]_vars

\* the message element is hidden by this step
MessageHidden == msgDisplay = "block" /\ msgDisplay' = "none"

\* C23: a status message in the message element is not hidden before its
\* own display duration has elapsed: whenever a callback hides the element,
\* it is the callback set for the message on display, so that no callback
\* set for that message is pending afterwards.
C23_HiddenOnlyByItsOwnCallback ==
  [][MessageHidden =>
       \A j \in 1..Len(hideTimers') : ~hideTimers'[j].current]_vars

\* C24: on success, the count in the status message of
\* copyEmailsToClipboard is the number of emails written to the clipboard:
\* the number of exact-string-distinct emails, which the header line of the
\* text written states too.
C24_MessageCountsWrittenEmails ==
  (CopyEmailsReturned /\ copyRet.success /\ AllStrings(clipEmails)) =>
    LET n == Len(Retained(clipEmails.a)) IN
    /\ copyRet.message = ExpectedCopiedMessage(n)
    /\ HeadersInForce =>
         SubSeq(clipboard, 1, Len(ExpectedHeader(n))) = ExpectedHeader(n)

\* C25: from the popup as constructed, after any sequence of messages
\* handled by handleChromeMessage, the clipboard button is visible exactly
\* when the list held by EmailList is non-empty.
C25_ClipboardButtonIffEmails ==
  (clipboardDisplay # "none") <=> (listEmails # <<>>)

\* C25 witness: an empty result has been handled while the message of an
\* earlier display was still pending; the list is empty and the button
\* hidden
C25_Witness ==
  /\ chromeMessage = [present |-> TRUE, emails |-> Arr(<<>>)]
  /\ Len(hideTimers) >= 2
  /\ listEmails = <<>>
  /\ clipboardDisplay = "none"

\* ------------------------------------------------------------------------
\* Properties of copyToClipboard
\* ------------------------------------------------------------------------
\* C2: copyToClipboard falls back to the selection-and-copy mechanism
\* whenever the clipboard-write primitive is unavailable or fails, and
\* returns false only if both failed: a false result for a text that can be
\* copied implies that the fallback was attempted and failed.
C2_FalseOnlyAfterFallbackFailed ==
  (clipPc = "returned" /\ ~clipResult /\ clipText.k = "string" /\ clipText.s # <<>>)
     => fallback = "failed"

\* ------------------------------------------------------------------------
\* Properties of the scrape button
\* ------------------------------------------------------------------------
\* C1: a trigger of handleScrapeClick while a scrape is in flight starts no
\* second scrape and leaves isScraping true and the button disabled, so at
\* most one performEmailScraping is in flight at any time.
C1_AtMostOneScrapeInFlight == Cardinality(InFlight) <= 1

====
